---------------------------- MODULE Spec2Model ----------------------------
(***************************************************************************)
(* Model of example_package.utils.read_element                             *)
(* (src/src/example_package/utils.py).                                     *)
(*                                                                         *)
(* One call of read_element is a short sequential program:                 *)
(*   Call -> ReadLCO | ReadSVO | ReadLocal [-> ReadFallback]               *)
(*        -> LocalChecks (local path only) -> Construct -> Return          *)
(* and the only state that outlives a call is the process-wide warnings    *)
(* filter list.                                                            *)
(*                                                                         *)
(* Representation.                                                         *)
(*  - Python strings whose characters the code inspects (the identifier,   *)
(*    element_type) are sequences of characters, so that str.lower,        *)
(*    str.upper, `in` and str.endswith are computed.  str.lower and        *)
(*    str.upper follow the Unicode case mappings, which may change the     *)
(*    length of a string.                                                  *)
(*  - Throughput samples are exact rationals [num, den]; dividing by 100.0 *)
(*    multiplies the denominator, and the mean is compared with 1.5 by     *)
(*    cross-multiplication.                                                *)
(*  - Wavelength samples are integers with a unit name next to them.       *)
(*  - The readers of synphot.specio are modelled by their outcome on a     *)
(*    file: the table it holds with the units the call passes, or the      *)
(*    exception raised.  Tables hold at least one row, no negative sample, *)
(*    and no unit keyword of their own.                                    *)
(*  - The synphot constructors record their arguments; they reject a flux  *)
(*    unit they cannot hold (see the comment at utils.py:92-94).           *)
(***************************************************************************)
EXTENDS Integers, Sequences, FiniteSets

VARIABLES
    pc,            \* position of the current call
    args,          \* the arguments of the current call
    element_type,  \* local variable element_type (line 39)
    filename,      \* local variable filename (lines 40-42)
    source,        \* local variable source (lines 48, 51, 54)
    file,          \* what is stored at the location the call reads
    reads,         \* the reader invocations of the current call, in order
    header,        \* local variable header
    wavelengths,   \* local variable wavelengths: [vals, unit]
    throughput,    \* local variable throughput: [vals, unit]
    result,        \* outcome of the call: returned object or raised error
    filters        \* warnings.filters, process-wide

vars == <<pc, args, element_type, filename, source, file, reads, header,
          wavelengths, throughput, result, filters>>

(***************************************************************************)
(* Bounds                                                                  *)
(***************************************************************************)
MaxLen == 2        \* longest table (number of rows) a file holds

(***************************************************************************)
(* Strings                                                                 *)
(***************************************************************************)
UpperCase == <<"A","B","C","D","E","F","G","H","I","J","K","L","M",
               "N","O","P","Q","R","S","T","U","V","W","X","Y","Z">>
LowerCase == <<"a","b","c","d","e","f","g","h","i","j","k","l","m",
               "n","o","p","q","r","s","t","u","v","w","x","y","z">>

\* Characters are one-character strings.  The alphabet is ASCII plus the
\* code points below, each written by its name: characters whose case
\* mapping is not one ASCII letter to one ASCII letter.
\*   "U+00C9"/"U+00E9"  E acute, capital and small
\*   "U+00DF"           sharp s:          upper() is "SS"
\*   "U+FB02"           ligature fl:      upper() is "FL"
\*   "U+017F"           long s:           upper() is "S", lower() is itself
\*   "U+212A"           Kelvin sign:      lower() is "k", upper() is itself
\*   "U+0130"           capital dotted I: lower() is "i" + "U+0307"
\*   "U+0307"           combining dot above, uncased
SpecialLower ==
    [c \in {"U+00C9", "U+212A", "U+0130"} |->
        CASE c = "U+00C9" -> <<"U+00E9">>
          [] c = "U+212A" -> <<"k">>
          [] c = "U+0130" -> <<"i", "U+0307">>]

SpecialUpper ==
    [c \in {"U+00E9", "U+00DF", "U+FB02", "U+017F"} |->
        CASE c = "U+00E9" -> <<"U+00C9">>
          [] c = "U+00DF" -> <<"S", "S">>
          [] c = "U+FB02" -> <<"F", "L">>
          [] c = "U+017F" -> <<"S">>]

\* str.lower() of one character: a string of one or two characters
LowerChar(c) ==
    IF \E i \in DOMAIN UpperCase : UpperCase[i] = c
    THEN <<LowerCase[CHOOSE i \in DOMAIN UpperCase : UpperCase[i] = c]>>
    ELSE IF c \in DOMAIN SpecialLower THEN SpecialLower[c] ELSE <<c>>

\* str.upper() of one character: a string of one or two characters
UpperChar(c) ==
    IF \E i \in DOMAIN LowerCase : LowerCase[i] = c
    THEN <<UpperCase[CHOOSE i \in DOMAIN LowerCase : LowerCase[i] = c]>>
    ELSE IF c \in DOMAIN SpecialUpper THEN SpecialUpper[c] ELSE <<c>>

\* str.lower()
RECURSIVE Lower(_)
Lower(s) == IF s = << >> THEN << >> ELSE LowerChar(Head(s)) \o Lower(Tail(s))

\* str.upper()
RECURSIVE Upper(_)
Upper(s) == IF s = << >> THEN << >> ELSE UpperChar(Head(s)) \o Upper(Tail(s))

\* pat in s
Contains(s, pat) ==
    \E i \in 0..(Len(s) - Len(pat)) :
        \A j \in 1..Len(pat) : s[i + j] = pat[j]

\* s.endswith(pat)
EndsWith(s, pat) ==
    /\ Len(pat) <= Len(s)
    /\ \A j \in 1..Len(pat) : s[Len(s) - Len(pat) + j] = pat[j]

\* The literals of the classification (lines 46, 50, 59)
StrLCO  == <<"L","C","O","_">>
StrCsv  == <<".","c","s","v">>
StrSvo  == <<"h","t","t","p",":","/","/","s","v","o">>
StrFits == <<"f","i","t","s">>
StrFit  == <<"f","i","t">>

\* The element_type literals (lines 62, 83, 91, 96, 104)
EtElement  == <<"e","l","e","m","e","n","t">>
EtSpectrum == <<"s","p","e","c","t","r","u","m">>
EtRadiance == <<"r","a","d","i","a","n","c","e">>
EtSpectralElement ==
    <<"s","p","e","c","t","r","a","l","_","e","l","e","m","e","n","t">>


(***************************************************************************)
(* Units (astropy.units / synphot.units objects, compared with ==)         *)
(***************************************************************************)
Nm         == "nm"                      \* u.nm
Angstrom   == "AA"                      \* u.AA
Micron     == "micron"                  \* u.micron
THROUGHPUT == "THROUGHPUT"              \* units.THROUGHPUT
PHOTLAM    == "PHOTLAM"                 \* units.PHOTLAM
FLAM       == "FLAM"                    \* units.FLAM, a caller-chosen unit
SkyRadiance == "photon/(s m2 um)"       \* u.photon / u.s / u.m**2 / u.um

(***************************************************************************)
(* Thresholds of the heuristics                                            *)
(***************************************************************************)
SmallWave == 100          \* 100.0   (line 77)
LargeWave == 3000         \* 3000.0  (line 80)
MeanLimitNum == 3         \* 1.5 = 3/2 (line 83)
MeanLimitDen == 2
Percent == 100            \* 100.0   (line 87)

(***************************************************************************)
(* Inputs of a call                                                        *)
(***************************************************************************)
IdLcoCsv   == <<"L","C","O","_",".","c","s","v">>
IdLcoMixed == <<"l","c","o","_","a",".","C","S","V">>
IdLcoSvo   == <<"h","t","t","p",":","/","/","s","v","o","/",
                "l","c","o","_",".","c","s","v">>
IdSvo      == <<"H","T","T","P",":","/","/","S","V","O","/","f">>
IdLcoDat   == <<"L","C","O","_",".","d","a","t">>
IdFits     == <<"a",".","F","I","T","S">>
IdFit      == <<"a",".","f","i","t">>
IdEmpty    == << >>
IdLigature == <<"U+FB02","c","o","_",".","c","s","v">>
IdLongS    == <<"L","C","O","_",".","c","U+017F","v">>

Identifiers ==
    {IdLcoCsv, IdLcoMixed, IdLcoSvo, IdSvo, IdLcoDat, IdFits, IdFit, IdEmpty,
     IdLigature, IdLongS}

ElementTypes ==
    { EtElement,
      EtSpectralElement,
      <<"S","p","e","c","t","r","u","m">>,
      EtRadiance,
      <<"f","i","l","t","e","r">> }

WaveUnitArgs == {Nm, Angstrom}
FluxUnitArgs == {THROUGHPUT, FLAM}

(***************************************************************************)
(* Files: what a location of the file system, the package data or the      *)
(* remote service holds                                                    *)
(***************************************************************************)
WaveFirsts  == {99, 100, 3000, 3001}
ThruSamples == {[num |-> 1, den |-> 2], [num |-> 5, den |-> 2]}

WaveColumn(v, n) == [i \in 1..n |-> v + 10 * (i - 1)]

Tables ==
    UNION { { [waves |-> WaveColumn(v, n), thru |-> t] :
                v \in WaveFirsts, t \in [1..n -> ThruSamples] } :
            n \in 1..MaxLen }

FitsColumns == { {"lam", "trans"}, {"lam", "flux"}, {"wave", "flux"} }

AsciiFiles ==
    { [kind |-> "ascii", cols |-> {}, waves |-> t.waves, thru |-> t.thru] :
        t \in Tables }
FitsFiles ==
    { [kind |-> "fits", cols |-> c, waves |-> t.waves, thru |-> t.thru] :
        t \in Tables, c \in FitsColumns }
Missing   == [kind |-> "missing",   cols |-> {}, waves |-> << >>, thru |-> << >>]
Garbled   == [kind |-> "garbled",   cols |-> {}, waves |-> << >>, thru |-> << >>]
Directory == [kind |-> "directory", cols |-> {}, waves |-> << >>, thru |-> << >>]
NoFile    == [kind |-> "unread",    cols |-> {}, waves |-> << >>, thru |-> << >>]

LocalFiles    == AsciiFiles \cup FitsFiles \cup {Missing, Garbled}
RemoteFiles   == AsciiFiles \cup {Missing}
PackagedFiles == AsciiFiles \cup {Missing}

(***************************************************************************)
(* The readers of synphot.specio, by outcome                               *)
(***************************************************************************)
NoTable == [vals |-> << >>, unit |-> "none"]

ReadError(e) ==
    [err |-> e, header |-> << >>, wavelengths |-> NoTable, throughput |-> NoTable]

ReadOk(f, wave_unit, flux_unit) ==
    [err |-> "none", header |-> << >>,
     wavelengths |-> [vals |-> f.waves, unit |-> wave_unit],
     throughput  |-> [vals |-> f.thru,  unit |-> flux_unit]]

\* specio.read_spec on a name ending in fits/fit (lines 65-67, 70-72)
read_spec(f, wave_col, flux_col, wave_unit, flux_unit) ==
    CASE f.kind = "missing"   -> ReadError("FileNotFoundError")
      [] f.kind = "directory" -> ReadError("IsADirectoryError")
      [] f.kind \in {"garbled", "ascii"} -> ReadError("OSError")
      [] OTHER ->
           IF wave_col \in f.cols /\ flux_col \in f.cols
           THEN ReadOk(f, wave_unit, flux_unit)
           ELSE ReadError("KeyError")

\* specio.read_ascii_spec (lines 74-76)
read_ascii_spec(f, wave_unit, flux_unit) ==
    CASE f.kind = "missing"   -> ReadError("FileNotFoundError")
      [] f.kind = "directory" -> ReadError("IsADirectoryError")
      [] f.kind \in {"garbled", "fits"} -> ReadError("InconsistentTableError")
      [] OTHER -> ReadOk(f, wave_unit, flux_unit)

\* specio.read_remote_spec (line 52)
read_remote_spec(f, wave_unit, flux_unit) ==
    CASE f.kind = "missing" -> ReadError("URLError")
      [] f.kind = "ascii"   -> ReadOk(f, wave_unit, flux_unit)
      [] OTHER              -> ReadError("InconsistentTableError")

\* A record of one reader invocation
ReadCall(reader, wave_col, flux_col, wave_unit, err) ==
    [reader |-> reader, wave_col |-> wave_col, flux_col |-> flux_col,
     wave_unit |-> wave_unit, err |-> err]

(***************************************************************************)
(* The decisions of read_element, as the code computes them                *)
(***************************************************************************)
\* Variant: element_type compared as the caller wrote it
NormalizeElementType_AsGiven(et) == et

\* element_type = element_type.lower()   (line 39)
NormalizeElementType(et) == Lower(et)

\* "LCO_" in filename.upper() and ".csv" in filename.lower()   (line 46)
IsLCOName(name) ==
    Contains(Upper(name), StrLCO) /\ Contains(Lower(name), StrCsv)

\* "http://svo" in filename.lower()   (line 50)
IsSVOName(name) == Contains(Lower(name), StrSvo)

\* filename.lower().endswith("fits") or filename.lower().endswith("fit")
\* (line 59)
IsFitsName(name) ==
    EndsWith(Lower(name), StrFits) \/ EndsWith(Lower(name), StrFit)

\* os.path.exists(file_path), else the package data location (lines 55-57):
\* the empty name resolves to the package data directory itself.
ResolveFile(name, f) == IF name = << >> THEN Directory ELSE f

\* flux_col of the primary FITS schema (lines 60-63)
PrimaryFluxCol(et) == IF et = EtRadiance THEN "flux" ELSE "trans"

\* Variant: a bare except clause
IsCaught_Any(err) == err # "none"

\* Variant: except (KeyError, OSError)
IsCaught_KeyOrOSError(err) == err \in {"KeyError", "OSError"}

\* except KeyError   (line 68)
IsCaught(err) == err = "KeyError"

\* An entry of warnings.filters: (action, message, category, module, lineno)
FilterEntry(action, message, category, module) ==
    [action |-> action, message |-> message, category |-> category,
     module |-> module, lineno |-> 0]

\* list.remove(item): the first entry equal to item is removed, if any
RECURSIVE RemoveFirst(_, _)
RemoveFirst(fs, item) ==
    IF fs = << >> THEN << >>
    ELSE IF Head(fs) = item THEN Tail(fs)
    ELSE <<Head(fs)>> \o RemoveFirst(Tail(fs), item)

\* warnings.simplefilter(action, category=category)   (line 58): the entry
\* (action, None, category, None, 0) is removed once if present and inserted
\* at the front of the filter list.
simplefilter(fs, action, category) ==
    LET item == FilterEntry(action, "None", category, "None")
    IN  <<item>> \o RemoveFirst(fs, item)

\* Variant: the lower threshold compared with <=
ReinterpretWavelengths_Inclusive(w, wave_units) ==
    IF w.vals[1] <= SmallWave /\ wave_units = Nm
    THEN [vals |-> w.vals, unit |-> Micron]
    ELSE IF w.vals[1] > LargeWave /\ wave_units = Nm
         THEN [vals |-> w.vals, unit |-> Angstrom]
         ELSE w

\* Variant: the caller's wave_units not consulted
ReinterpretWavelengths_AnyUnits(w, wave_units) ==
    IF w.vals[1] < SmallWave
    THEN [vals |-> w.vals, unit |-> Micron]
    ELSE IF w.vals[1] > LargeWave
         THEN [vals |-> w.vals, unit |-> Angstrom]
         ELSE w

\* Lines 77-82: the unit the numeric values are given, from the first value.
ReinterpretWavelengths(w, wave_units) ==
    IF w.vals[1] < SmallWave /\ wave_units = Nm
    THEN [vals |-> w.vals, unit |-> Micron]
    ELSE IF w.vals[1] > LargeWave /\ wave_units = Nm
         THEN [vals |-> w.vals, unit |-> Angstrom]
         ELSE w

\* Sum of a sequence of rationals, as [num, den]
RECURSIVE RSum(_)
RSum(s) ==
    IF s = << >> THEN [num |-> 0, den |-> 1]
    ELSE LET h == Head(s)
             r == RSum(Tail(s))
         IN  [num |-> h.num * r.den + r.num * h.den, den |-> h.den * r.den]

\* Variant: the mean compared with >=
MeanAtLeastLimit(vals) ==
    LET t == RSum(vals)
    IN  t.num * MeanLimitDen >= MeanLimitNum * t.den * Len(vals)

\* throughput.mean() > 1.5   (line 83)
MeanAboveLimit(vals) ==
    LET t == RSum(vals)
    IN  t.num * MeanLimitDen > MeanLimitNum * t.den * Len(vals)

\* Variant: the element type not consulted
IsPercentage_AnyType(et, vals) ==
    LET t == RSum(vals)
    IN  t.num * MeanLimitDen > MeanLimitNum * t.den * Len(vals)

\* Line 83 evaluates throughput.mean() > 1.5 only when the two element_type
\* tests before it are true (`and` short-circuits).
ComparesMean(et) == et # EtSpectrum /\ et # EtRadiance

\* quantity > 1.5: astropy compares a quantity with a bare number only when
\* the quantity is dimensionless, and raises UnitConversionError otherwise
\* (line 83).
ComparableWithNumber(unit) == unit = THROUGHPUT

\* element_type != "spectrum" and element_type != "radiance" and
\* throughput.mean() > 1.5   (line 83)
IsPercentage(et, vals) ==
    et # EtSpectrum /\ et # EtRadiance /\ MeanAboveLimit(vals)

\* throughput /= 100.0   (line 87)
DivideByPercent(vals) ==
    [i \in DOMAIN vals |-> [num |-> vals[i].num, den |-> vals[i].den * Percent]]

\* header[key] = value
SetKey(h, key, value) ==
    [k \in DOMAIN h \cup {key} |-> IF k = key THEN value ELSE h[k]]

\* Lines 95-100: the flux unit handed to SourceSpectrum.
DefaultFluxUnit(et, flux_units, t) ==
    IF flux_units = THROUGHPUT
    THEN IF et = EtRadiance
         THEN [vals |-> t.vals, unit |-> SkyRadiance]
         ELSE [vals |-> t.vals, unit |-> PHOTLAM]
    ELSE t

\* Lines 91, 104, 108: the class constructed.
VariantOf(et) ==
    IF et = EtSpectrum \/ et = EtRadiance THEN "SourceSpectrum"
    ELSE IF et = EtSpectralElement THEN "SpectralElement"
    ELSE "BaseUnitlessSpectrum"

\* The flux unit a synphot class accepts for lookup_table (lines 92-94: a
\* SourceSpectrum cannot hold units.THROUGHPUT; the unitless classes hold
\* nothing else).
AcceptsFluxUnit(variant, unit) ==
    IF variant = "SourceSpectrum" THEN unit # THROUGHPUT ELSE unit = THROUGHPUT

(***************************************************************************)
(* Outcomes of a call                                                      *)
(***************************************************************************)
NoObject ==
    [variant |-> "none", points |-> NoTable, lookup_table |-> NoTable,
     keep_neg |-> FALSE, meta |-> << >>]

NoResult  == [status |-> "none", error |-> "none", object |-> NoObject]
Raised(e) == [status |-> "raised", error |-> e, object |-> NoObject]
Returned(variant, points, lookup_table, h) ==
    [status |-> "returned", error |-> "none",
     object |-> [variant |-> variant, points |-> points,
                 lookup_table |-> lookup_table, keep_neg |-> FALSE,
                 meta |-> h]]

NoArgs ==
    [id |-> << >>, element_type |-> << >>, wave_units |-> Nm,
     flux_units |-> THROUGHPUT]

\* warnings.filters of a fresh interpreter
DefaultFilters ==
    << FilterEntry("default", "None", "DeprecationWarning", "__main__"),
       FilterEntry("ignore", "None", "DeprecationWarning", "None"),
       FilterEntry("ignore", "None", "PendingDeprecationWarning", "None"),
       FilterEntry("ignore", "None", "ImportWarning", "None"),
       FilterEntry("ignore", "None", "ResourceWarning", "None") >>

\* warnings.filters when read_element is first called: as the interpreter
\* starts, or after the caller's own
\* warnings.filterwarnings("ignore", message="foo",
\*                         category=AstropyUserWarning)
InitialFilters ==
    { DefaultFilters,
      <<FilterEntry("ignore", "foo", "AstropyUserWarning", "None")>>
         \o DefaultFilters }

(***************************************************************************)
(* State machine                                                           *)
(***************************************************************************)
Init ==
    /\ pc = "idle"
    /\ args = NoArgs
    /\ element_type = << >>
    /\ filename = << >>
    /\ source = "none"
    /\ file = NoFile
    /\ reads = << >>
    /\ header = << >>
    /\ wavelengths = NoTable
    /\ throughput = NoTable
    /\ result = NoResult
    /\ filters \in InitialFilters

\* What a reader returned is bound to header, wavelengths, throughput.
Bind(r) ==
    /\ header' = r.header
    /\ wavelengths' = r.wavelengths
    /\ throughput' = r.throughput

\* An exception leaves read_element.
Raise(e) ==
    /\ result' = Raised(e)
    /\ pc' = "done"

\* read_element(filtername_or_filename, element_type, wave_units, flux_units):
\* entry and lines 39-45.
Call(id, et, wu, fu) ==
    /\ pc = "idle"
    /\ args' = [id |-> id, element_type |-> et, wave_units |-> wu,
                flux_units |-> fu]
    /\ element_type' = NormalizeElementType(et)
    /\ filename' = id
    /\ source' = "none"
    /\ file' = NoFile
    /\ reads' = << >>
    /\ header' = << >>
    /\ wavelengths' = NoTable
    /\ throughput' = NoTable
    /\ result' = NoResult
    /\ pc' = "dispatch"
    /\ UNCHANGED filters

\* Lines 46-49: the packaged CSV branch.  utils.py neither defines nor imports
\* read_lco_filter_csv, so line 49 raises NameError before any reader runs.
ReadLCO ==
    /\ pc = "dispatch"
    /\ IsLCOName(filename)
    /\ \E f \in PackagedFiles : file' = f
    /\ source' = "LCO iLab format"
    /\ Raise("NameError")
    /\ UNCHANGED <<args, element_type, filename, reads, header, wavelengths,
                   throughput, filters>>

\* Lines 50-52: the remote filter-service branch.
ReadSVO ==
    /\ pc = "dispatch"
    /\ ~IsLCOName(filename)
    /\ IsSVOName(filename)
    /\ source' = "SVO filter service"
    /\ \E f \in RemoteFiles :
         LET r == read_remote_spec(f, Angstrom, THROUGHPUT)
         IN  /\ file' = f
             /\ reads' = Append(reads,
                    ReadCall("read_remote_spec", "", "", Angstrom, r.err))
             /\ IF r.err = "none"
                THEN Bind(r) /\ pc' = "construct" /\ UNCHANGED result
                ELSE Raise(r.err) /\ UNCHANGED <<header, wavelengths, throughput>>
    /\ UNCHANGED <<args, element_type, filename, filters>>

\* Lines 53-76 up to the first reader invocation of the local-file branch.
ReadLocal ==
    /\ pc = "dispatch"
    /\ ~IsLCOName(filename)
    /\ ~IsSVOName(filename)
    /\ source' = "local file"
    /\ filters' = simplefilter(filters, "ignore", "AstropyUserWarning")
    /\ \E f0 \in LocalFiles :
         LET f == ResolveFile(filename, f0)
             fits == IsFitsName(filename)
             flux_col == PrimaryFluxCol(element_type)
             r == IF fits
                  THEN read_spec(f, "lam", flux_col, Nm, args.flux_units)
                  ELSE read_ascii_spec(f, args.wave_units, args.flux_units)
             call == IF fits
                     THEN ReadCall("read_spec", "lam", flux_col, Nm, r.err)
                     ELSE ReadCall("read_ascii_spec", "", "", args.wave_units,
                                   r.err)
         IN  /\ file' = f
             /\ reads' = Append(reads, call)
             /\ IF r.err = "none"
                THEN Bind(r) /\ pc' = "checks" /\ UNCHANGED result
                ELSE IF fits /\ IsCaught(r.err)
                THEN /\ pc' = "fallback"
                     /\ UNCHANGED <<header, wavelengths, throughput, result>>
                ELSE Raise(r.err) /\ UNCHANGED <<header, wavelengths, throughput>>
    /\ UNCHANGED <<args, element_type, filename>>

\* Lines 68-72: the ESO-SM01 schema, read inside the except clause.
ReadFallback ==
    /\ pc = "fallback"
    /\ LET r == read_spec(file, "lam", "flux", Micron, args.flux_units)
       IN  /\ reads' = Append(reads,
                  ReadCall("read_spec", "lam", "flux", Micron, r.err))
           /\ IF r.err = "none"
              THEN Bind(r) /\ pc' = "checks" /\ UNCHANGED result
              ELSE Raise(r.err) /\ UNCHANGED <<header, wavelengths, throughput>>
    /\ UNCHANGED <<args, element_type, filename, source, file, filters>>

\* Lines 77-88: the checks of the local-file branch.
LocalChecks ==
    /\ pc = "checks"
    /\ wavelengths' = ReinterpretWavelengths(wavelengths, args.wave_units)
    /\ IF ComparesMean(element_type) /\ ~ComparableWithNumber(throughput.unit)
       THEN /\ Raise("UnitConversionError")
            /\ UNCHANGED <<throughput, header>>
       ELSE /\ IF IsPercentage(element_type, throughput.vals)
               THEN /\ throughput' = [vals |-> DivideByPercent(throughput.vals),
                                      unit |-> throughput.unit]
                    /\ header' = SetKey(header, "notes",
                           "Divided by 100.0 to convert from percentage")
               ELSE UNCHANGED <<throughput, header>>
            /\ pc' = "construct"
            /\ UNCHANGED result
    /\ UNCHANGED <<args, element_type, filename, source, file, reads, filters>>

\* Lines 89-113: header augmentation, flux-unit defaulting, construction.
Construct ==
    /\ pc = "construct"
    /\ LET h == SetKey(SetKey(header, "source", source), "filename", filename)
           variant == VariantOf(element_type)
           table == IF variant = "SourceSpectrum"
                    THEN DefaultFluxUnit(element_type, args.flux_units,
                                         throughput)
                    ELSE throughput
       IN  /\ header' = h
           /\ throughput' = table
           /\ result' = IF AcceptsFluxUnit(variant, table.unit)
                        THEN Returned(variant, wavelengths, table, h)
                        ELSE Raised("SynphotError")
    /\ pc' = "done"
    /\ UNCHANGED <<args, element_type, filename, source, file, reads,
                   wavelengths, filters>>

\* The call is over: the caller has the object or the exception, and the
\* frame of read_element is gone.  warnings.filters stays as the call left it.
Return ==
    /\ pc = "done"
    /\ pc' = "idle"
    /\ args' = NoArgs
    /\ element_type' = << >>
    /\ filename' = << >>
    /\ source' = "none"
    /\ file' = NoFile
    /\ reads' = << >>
    /\ header' = << >>
    /\ wavelengths' = NoTable
    /\ throughput' = NoTable
    /\ result' = NoResult
    /\ UNCHANGED filters

Next ==
    \/ \E id \in Identifiers, et \in ElementTypes,
          wu \in WaveUnitArgs, fu \in FluxUnitArgs : Call(id, et, wu, fu)
    \/ ReadLCO
    \/ ReadSVO
    \/ ReadLocal
    \/ ReadFallback
    \/ LocalChecks
    \/ Construct
    \/ Return

Spec == Init /\ [][Next]_vars

(***************************************************************************)
(* Vocabulary of the properties                                            *)
(***************************************************************************)
\* pat occurs in s, letter case ignored
HasIgnoringCase(s, pat) == Contains(Lower(s), Lower(pat))

\* The label of the read path the classification rule assigns to id
ClaimedSource(id) ==
    IF HasIgnoringCase(id, StrLCO) /\ HasIgnoringCase(id, StrCsv)
    THEN "LCO iLab format"
    ELSE IF HasIgnoringCase(id, StrSvo)
         THEN "SVO filter service"
         ELSE "local file"

\* The requested element type, letter case ignored
RequestedType == Lower(args.element_type)

\* The last reader invocation of the call delivered a table
ReadSucceeded == reads # << >> /\ reads[Len(reads)].err = "none"

\* The checks of the read path are over (or the path has none)
PastChecks == pc \in {"construct", "done"} /\ ReadSucceeded

IsReturned == result.status = "returned"

\* The mean of the rationals vals is above 3/2
MeanAbove3Halves(vals) ==
    2 * RSum(vals).num > 3 * RSum(vals).den * Len(vals)

\* got[i] = orig[i] / k for every i
EqualsDividedBy(got, orig, k) ==
    /\ Len(got) = Len(orig)
    /\ \A i \in DOMAIN orig :
         got[i].num * orig[i].den * k = orig[i].num * got[i].den

(***************************************************************************)
(* C1                                                                      *)
(***************************************************************************)
\* C1 as stated: the read path is the first matching rule of the
\* classification, letter case ignored (LCO_ and .csv, else http://svo, else
\* local file; an identifier matching the first two takes the packaged CSV
\* path), and every returned object's header has "source" equal to the label
\* of the path taken and a non-empty "filename" equal to the identifier.
C1_CaseIgnored ==
    /\ source # "none" => source = ClaimedSource(args.id)
    /\ IsReturned =>
         /\ result.object.meta["source"] = ClaimedSource(args.id)
         /\ result.object.meta["filename"] = args.id
         /\ args.id # << >>

(***************************************************************************)
(* C2                                                                      *)
(***************************************************************************)
\* The percentage rule applied to the returned lookup table
PercentageRuleHolds ==
    IF MeanAbove3Halves(file.thru)
    THEN /\ EqualsDividedBy(result.object.lookup_table.vals, file.thru, 100)
         /\ "notes" \in DOMAIN result.object.meta
    ELSE EqualsDividedBy(result.object.lookup_table.vals, file.thru, 1)

\* C2 as stated: for element_type element or spectral_element, on whichever
\* read path, a mean throughput above 1.5 gives values divided by 100 and a
\* "notes" header entry, a mean of at most 1.5 gives the values unscaled.
C2_AnyPath ==
    (IsReturned /\ RequestedType \in {EtElement, EtSpectralElement})
        => PercentageRuleHolds

\* C2 amended: the same on the local-file path only; on the remote path the
\* values are returned unscaled and without a "notes" entry whatever their
\* mean.
Thm_C2 ==
    (IsReturned /\ RequestedType \in {EtElement, EtSpectralElement}) =>
        IF source = "local file"
        THEN PercentageRuleHolds
        ELSE /\ EqualsDividedBy(result.object.lookup_table.vals, file.thru, 1)
             /\ "notes" \notin DOMAIN result.object.meta

\* A local two-row file with mean 2.5, returned divided by 100 with a note
Wit_C2 ==
    /\ IsReturned
    /\ RequestedType = EtSpectralElement
    /\ source = "local file"
    /\ Len(file.thru) = 2
    /\ RSum(file.thru) = [num |-> 20, den |-> 4]
    /\ result.object.lookup_table.vals =
          <<[num |-> 5, den |-> 200], [num |-> 5, den |-> 200]>>
    /\ "notes" \in DOMAIN result.object.meta

(***************************************************************************)
(* C3                                                                      *)
(***************************************************************************)
\* The unit the rule gives a local ASCII table whose first value is v
UnitByMagnitude(v, unchanged) ==
    IF v < 100 THEN Micron ELSE IF v > 3000 THEN Angstrom ELSE unchanged

IsLocalAscii == source = "local file" /\ ~IsFitsName(args.id)

\* C3: a local ASCII file read with the default wave_units (nm) keeps its
\* numeric wavelengths and gets the unit micron if the first value is below
\* 100, angstrom if it is above 3000, and stays nm from 100 to 3000, both
\* included.
Thm_C3 ==
    (IsLocalAscii /\ args.wave_units = Nm /\ PastChecks) =>
        /\ wavelengths = [vals |-> file.waves,
                          unit |-> UnitByMagnitude(file.waves[1], Nm)]
        /\ IsReturned => result.object.points = wavelengths

\* A local ASCII file starting at exactly 100 is returned in nm
Wit_C3 ==
    /\ IsLocalAscii /\ args.wave_units = Nm /\ IsReturned
    /\ file.waves[1] = 100
    /\ result.object.points.unit = Nm

(***************************************************************************)
(* C4                                                                      *)
(***************************************************************************)
IsSourceRequest == RequestedType \in {EtSpectrum, EtRadiance}

\* C4: for element_type spectrum or radiance the object returned is a
\* SourceSpectrum whose flux values are the values read, never divided by 100;
\* with flux_units left at the throughput unit they carry photon/(s m2 um) for
\* radiance and PHOTLAM for spectrum, and with any other flux_units they carry
\* the caller's unit.  With the default flux_units every successful read ends
\* in a returned object.
Thm_C4 ==
    (pc = "done" /\ IsSourceRequest) =>
        /\ IsReturned =>
             /\ result.object.variant = "SourceSpectrum"
             /\ result.object.lookup_table.vals = file.thru
             /\ result.object.lookup_table.unit =
                  IF args.flux_units = THROUGHPUT
                  THEN IF RequestedType = EtRadiance
                       THEN SkyRadiance ELSE PHOTLAM
                  ELSE args.flux_units
        /\ (ReadSucceeded /\ args.flux_units = THROUGHPUT) => IsReturned

\* A spectrum with mean flux above 1.5 returned with default flux_units
Wit_C4 ==
    /\ IsReturned
    /\ RequestedType = EtSpectrum
    /\ args.flux_units = THROUGHPUT
    /\ source = "local file"
    /\ MeanAbove3Halves(file.thru)
    /\ result.object.lookup_table.unit = PHOTLAM

(***************************************************************************)
(* C5                                                                      *)
(***************************************************************************)
IsLocalFits == source = "local file" /\ IsFitsName(args.id)

IsPrimaryRead(r) ==
    /\ r.reader = "read_spec"
    /\ r.wave_col = "lam"
    /\ r.flux_col = (IF RequestedType = EtRadiance THEN "flux" ELSE "trans")
    /\ r.wave_unit = Nm

IsFallbackRead(r) ==
    /\ r.reader = "read_spec"
    /\ r.wave_col = "lam"
    /\ r.flux_col = "flux"
    /\ r.wave_unit = Micron

\* The read-count and propagation part of C5: the first read uses the primary
\* schema; a missing-column error from it is caught and followed by exactly
\* one read with the ESO-SM01 schema; there is never a third read; any other
\* error of the first read, and any error of the second, is the error the
\* call raises.
FallbackProtocol ==
    /\ Len(reads) <= 2
    /\ Len(reads) >= 1 => IsPrimaryRead(reads[1])
    /\ Len(reads) = 2 =>
         reads[1].err = "KeyError" /\ IsFallbackRead(reads[2])
    /\ (pc = "done" /\ reads[1].err = "KeyError") => Len(reads) = 2
    /\ (pc = "fallback") => (Len(reads) = 1 /\ reads[1].err = "KeyError")
    /\ (pc = "done" /\ reads[1].err \notin {"none", "KeyError"}) =>
         (Len(reads) = 1 /\ result = Raised(reads[1].err))
    /\ (pc = "done" /\ Len(reads) = 2 /\ reads[2].err # "none") =>
         result = Raised(reads[2].err)

\* The call is over and its second read delivered a table
FallbackSucceeded == pc = "done" /\ Len(reads) = 2 /\ reads[2].err = "none"

\* C5 as stated: on the local FITS path the reads follow the protocol above,
\* and a successful second read always ends in a returned object.
C5_FallbackAlwaysReturns ==
    IsLocalFits =>
        /\ FallbackProtocol
        /\ FallbackSucceeded => IsReturned

\* C5 amended: on the local FITS path the reads follow the protocol above; a
\* successful second read ends in a returned object when flux_units is the
\* default or element_type is spectrum or radiance; for any other
\* element_type with a caller-chosen flux_units the call raises the unit
\* error of the mean comparison (line 83) after the successful read.
Thm_C5 ==
    IsLocalFits =>
        /\ FallbackProtocol
        /\ FallbackSucceeded =>
             /\ IsReturned <=>
                  (args.flux_units = THROUGHPUT \/ IsSourceRequest)
             /\ ~IsReturned => result = Raised("UnitConversionError")

\* A file without "trans" but with "flux", returned after the second read
Wit_C5 ==
    /\ IsLocalFits /\ IsReturned
    /\ Len(reads) = 2
    /\ file.cols = {"lam", "flux"}
    /\ result.object.points.unit = Micron

(***************************************************************************)
(* C6                                                                      *)
(***************************************************************************)
\* C6 as stated: no call invokes a reader more than once.
C6_AtMostOneRead == Len(reads) <= 1

\* C6 amended: a call invokes a reader at most once, except on the local FITS
\* path when the first read raised a missing-column error: then it invokes
\* the reader exactly twice.  No call invokes a reader more than twice.
Thm_C6 ==
    /\ Len(reads) <= 2
    /\ Len(reads) = 2 => (IsLocalFits /\ reads[1].err = "KeyError")
    /\ (pc = "done" /\ IsLocalFits /\ reads[1].err = "KeyError")
          => Len(reads) = 2

\* A call that has read twice and raised the second error
Wit_C6 ==
    /\ pc = "done"
    /\ Len(reads) = 2
    /\ result = Raised("KeyError")

(***************************************************************************)
(* C7                                                                      *)
(***************************************************************************)
\* C7 as stated: no step of a call changes process-wide state; the warnings
\* filter list is the same after the call as before it.
C7_FiltersUntouched == [][filters' = filters]_vars

(***************************************************************************)
(* C8                                                                      *)
(***************************************************************************)
\* C8 as stated: an identifier with LCO_ and .csv naming an existing,
\* well-formed packaged file gives a returned object whose header "source" is
\* "LCO iLab format".
C8_PackagedCsvReturns ==
    (pc = "done" /\ ClaimedSource(args.id) = "LCO iLab format"
                 /\ file.kind = "ascii") =>
        /\ IsReturned
        /\ result.object.meta["source"] = "LCO iLab format"

(***************************************************************************)
(* C9                                                                      *)
(***************************************************************************)
\* The class the mapping assigns to a lower-cased element type
ClaimedVariant(et) ==
    CASE et \in {EtSpectrum, EtRadiance} -> "SourceSpectrum"
      [] et = EtSpectralElement          -> "SpectralElement"
      [] OTHER                           -> "BaseUnitlessSpectrum"

\* The class of every returned object is the one the lower-cased
\* element_type selects (SourceSpectrum for spectrum and radiance,
\* SpectralElement for spectral_element, BaseUnitlessSpectrum for anything
\* else) on every read path.
VariantByElementType ==
    IsReturned => result.object.variant = ClaimedVariant(RequestedType)

\* C9 as stated: the class is selected by the lower-cased element_type alone,
\* and no element_type value causes an error: every call whose read
\* succeeded ends in a returned object.
C9_NoTypeCausesError ==
    /\ VariantByElementType
    /\ (pc = "done" /\ ReadSucceeded) => IsReturned

\* C9 amended: the class is selected by the lower-cased element_type alone;
\* with the default flux_units no element_type value causes an error; with a
\* caller-chosen flux_units a call whose read succeeded returns on the local
\* path only for spectrum and radiance (any other value raises at the mean
\* comparison of line 83) and on the remote path only for the other values
\* (spectrum and radiance raise in the SourceSpectrum constructor).
Thm_C9 ==
    /\ VariantByElementType
    /\ (pc = "done" /\ ReadSucceeded) =>
         (IsReturned <=>
            \/ args.flux_units = THROUGHPUT
            \/ source = "local file" /\ IsSourceRequest
            \/ source = "SVO filter service" /\ ~IsSourceRequest)

\* An unrecognised element_type returned as the unitless curve from the
\* remote path
Wit_C9 ==
    /\ IsReturned
    /\ args.element_type = <<"f","i","l","t","e","r">>
    /\ source = "SVO filter service"
    /\ result.object.variant = "BaseUnitlessSpectrum"

(***************************************************************************)
(* C10                                                                     *)
(***************************************************************************)
\* The unit of the last read
UnitAsRead == reads[Len(reads)].wave_unit

\* A value in the given unit, expressed in nm
InNm(v, unit) == IF unit = Micron THEN v * 1000 ELSE v

\* No reinterpretation off the local path or with caller-chosen wave_units
NoReinterpretationElsewhere ==
    (PastChecks /\ (source # "local file" \/ args.wave_units # Nm)) =>
        wavelengths = [vals |-> file.waves, unit |-> UnitAsRead]

\* C10 as stated: the rule applies on the local path with default wave_units
\* only, and there it compares the first sample expressed in nm, also after
\* the micron fallback read.
C10_ComparedInNm ==
    /\ NoReinterpretationElsewhere
    /\ (PastChecks /\ source = "local file" /\ args.wave_units = Nm) =>
         wavelengths =
            [vals |-> file.waves,
             unit |-> UnitByMagnitude(InNm(file.waves[1], UnitAsRead),
                                      UnitAsRead)]

\* C10 amended: the rule applies on the local path with default wave_units
\* only, and there it compares the first sample's number as read, whatever
\* unit the read gave it (nm, or micron after the fallback read).
Thm_C10 ==
    /\ NoReinterpretationElsewhere
    /\ (PastChecks /\ source = "local file" /\ args.wave_units = Nm) =>
         wavelengths =
            [vals |-> file.waves,
             unit |-> UnitByMagnitude(file.waves[1], UnitAsRead)]

\* A fallback read whose first sample is 3000 micron is returned in micron
Wit_C10 ==
    /\ IsLocalFits /\ IsReturned
    /\ Len(reads) = 2
    /\ args.wave_units = Nm
    /\ file.waves[1] = 3000
    /\ result.object.points.unit = Micron

=============================================================================
